---- MODULE Spec2Model ----
(***************************************************************************)
(* A model of ghq's command handlers (commands.go): get / import (the sync *)
(* path through getRemoteRepository) and list / which / look (the local    *)
(* repository walk, matching and unique-subpath listing).                  *)
(***************************************************************************)
EXTENDS Integers, Sequences, FiniteSets, TLC

VARIABLES
    cmd,        \* the sub-command being run
    doUpdate,   \* c.Bool("update")
    isShallow,  \* c.Bool("shallow")
    isSSH,      \* c.Bool("p")
    fs,         \* the filesystem: state of every target path
    pc,         \* position of the process
    cur,        \* the target the command is working on (or NoTarget)
    evs,        \* what getRemoteRepository did for cur, in order
    calls,      \* the driver calls made for cur, with their arguments
    itemsLeft,  \* entries of the current batch page still to be processed
    page,       \* import starred: current page
    lastPage,   \* import starred: res.LastPage of the last response
    repos,      \* local repositories in discovery order
    args,       \* arguments of the list / which / look command that ran
    stdout,     \* lines printed (with the repository each line was printed for)
    errlog,     \* utils.Log("error", ...) messages
    lookDir     \* directory look handed to the shell

vars == <<cmd, doUpdate, isShallow, isSSH, fs, pc, cur, evs, calls, itemsLeft,
          page, lastPage, repos, args, stdout, errlog, lookDir>>

syncVars == <<cmd, doUpdate, isShallow, isSSH, fs, cur, evs, calls, itemsLeft,
              page, lastPage>>

listVars == <<repos, args, stdout, errlog, lookDir>>

----------------------------------------------------------------------------
(* Bounds *)

MaxItems == 2

MaxPage == 2

\* most path parts (directory levels) of a local repository's relPath
MaxParts == 2

\* most repositories a walk finds before a unique-subpath listing
MaxRepos == 3

\* most repositories a walk finds before a query (list, which, look)
MaxQueried == 2

----------------------------------------------------------------------------
(* Remote repositories and the filesystem *)

URLIds == {"u1", "u2"}

Schemes == {"https", "ssh"}

VCSBackends == {"git", "hg", "nil"}

\* A RemoteRepository as the handlers see it: its URL() and the answers of
\* its IsValid() and VCS() methods ("nil": no backend found).
Remotes == [url : [id : URLIds, scheme : Schemes], valid : BOOLEAN, vcs : VCSBackends]

\* LocalRepositoryFromURL(remoteURL).FullPath: under the primary root, from
\* the URL's host and path; the scheme plays no part.
FullPathOf(url) == <<"root1", url.id>>

Paths == {FullPathOf([id |-> i, scheme |-> "https"]) : i \in URLIds}

FsStates == {"absent", "repo", "partial", "unreadable"}

\* The driver's results: a clone may succeed, fail leaving nothing or a
\* partial directory, or be interrupted by the user.
DriverResults == {"ok", "failClean", "failPartial", "interrupt"}

NoTarget == [stage |-> "none", url |-> [id |-> "u1", scheme |-> "https"],
             valid |-> FALSE, vcs |-> "nil", stat |-> "none", was |-> "none"]

\* was: what the target path held when the target was taken up
Target(stage, remote, stat, was) ==
    [stage |-> stage, url |-> remote.url, valid |-> remote.valid,
     vcs |-> remote.vcs, stat |-> stat, was |-> was]

\* os.Stat(path): nil error, IsNotExist, or another error
Stat(fsv, path) ==
    CASE fsv[path] = "absent" -> "notexist"
      [] fsv[path] = "unreadable" -> "error"
      [] OTHER -> "ok"

\* vcs.Clone(remoteURL, path, isShallow) acting on the filesystem
CloneEffect(fsv, path, drv) ==
    CASE drv = "ok" -> [fsv EXCEPT ![path] = "repo"]
      [] drv = "failClean" -> fsv
      [] OTHER -> [fsv EXCEPT ![path] = "partial"]

\* local.VCS().Update(path) acting on the filesystem: a working copy stays
\* what it was
UpdateEffect(fsv, path, drv) == fsv

SyncDecision_AlwaysUpdate(newPath, update, vcs) ==
    IF newPath
    THEN IF vcs = "nil" THEN "novcs" ELSE "clone"
    ELSE "update"

SyncDecision_CloneOnUpdate(newPath, update, vcs) ==
    IF newPath \/ update
    THEN IF vcs = "nil" THEN "novcs" ELSE "clone"
    ELSE "exists"

SyncDecision_NoVcsCheck(newPath, update, vcs) ==
    IF newPath
    THEN "clone"
    ELSE IF update THEN "update" ELSE "exists"

\* The branch getRemoteRepository takes once os.Stat returned without a
\* fatal error.
SyncDecision(newPath, update, vcs) ==
    IF newPath
    THEN IF vcs = "nil" THEN "novcs" ELSE "clone"
    ELSE IF update THEN "update" ELSE "exists"

\* getRemoteRepository(remote, doUpdate, isShallow): the events, the driver
\* calls, the filesystem afterwards and how the call ends.
GetRemoteRepository(remote, update, shallow, fsv, drv) ==
    LET remoteURL == remote.url
        path == FullPathOf(remoteURL)
        st == Stat(fsv, path)
        d == SyncDecision(st = "notexist", update, remote.vcs)
        ended == IF drv = "interrupt" THEN "killed" ELSE "return"
    IN  CASE st = "error" ->
               [evs |-> <<"stat", "panic">>, calls |-> <<>>, fs |-> fsv,
                end |-> "panic", stat |-> st]
          [] st # "error" /\ d = "novcs" ->
               [evs |-> <<"stat", "log.clone", "log.error", "exit">>,
                calls |-> <<>>, fs |-> fsv, end |-> "exit1", stat |-> st]
          [] st # "error" /\ d = "clone" ->
               [evs |-> <<"stat", "log.clone", "Clone">>,
                calls |-> <<[op |-> "Clone", vcs |-> remote.vcs, url |-> remoteURL,
                             path |-> path, shallow |-> shallow]>>,
                fs |-> CloneEffect(fsv, path, drv), end |-> ended, stat |-> st]
          [] st # "error" /\ d = "update" ->
               [evs |-> <<"stat", "log.update", "Update">>,
                calls |-> <<[op |-> "Update", vcs |-> "local", url |-> remoteURL,
                             path |-> path, shallow |-> FALSE]>>,
                fs |-> UpdateEffect(fsv, path, drv), end |-> ended, stat |-> st]
          [] OTHER ->
               [evs |-> <<"stat", "log.exists">>, calls |-> <<>>, fs |-> fsv,
                end |-> "return", stat |-> st]

----------------------------------------------------------------------------
(* Entry points of the sync path *)

Terminal == {"done", "exit1", "panic", "killed", "shell"}

\* doGet up to the call of getRemoteRepository: where the argument stops.
\* Every failure here ends the process (DieIf / os.Exit(1)).
GetStage(argEmpty, urlOk, ssh, convOk, remoteOk, remote) ==
    CASE argEmpty -> "usage"
      [] ~argEmpty /\ ~urlOk -> "parseErr"
      [] ~argEmpty /\ urlOk /\ ssh /\ ~convOk -> "convErr"
      [] ~argEmpty /\ urlOk /\ (ssh => convOk) /\ ~remoteOk -> "remoteErr"
      [] ~argEmpty /\ urlOk /\ (ssh => convOk) /\ remoteOk /\ ~remote.valid -> "invalid"
      [] OTHER -> "sync"

\* One iteration of doImportStarred's loop over a page, up to the call of
\* getRemoteRepository: every failure here is a `continue`.
StarredStage(urlOk, ssh, convOk, remoteOk, remote) ==
    CASE ~urlOk -> "parseErr"
      [] urlOk /\ ssh /\ ~convOk -> "convErr"
      [] urlOk /\ (ssh => convOk) /\ ~remoteOk -> "remoteErr"
      [] urlOk /\ (ssh => convOk) /\ remoteOk /\ ~remote.valid -> "invalid"
      [] OTHER -> "sync"

PocketStage_NoValidCheck(urlOk, remoteOk, remote) ==
    CASE ~urlOk -> "parseErr"
      [] urlOk /\ ~remoteOk -> "remoteErr"
      [] OTHER -> "sync"

\* One iteration of doImportPocket's loop over res.List.
PocketStage(urlOk, remoteOk, remote) ==
    CASE ~urlOk -> "parseErr"
      [] urlOk /\ ~remoteOk -> "remoteErr"
      [] urlOk /\ remoteOk /\ ~remote.valid -> "invalid"
      [] OTHER -> "sync"

\* What a target leaves in the state: the stage it stopped at and, when
\* getRemoteRepository was called, what that call did.
Synced(stage, remote, drv, next) ==
    IF stage = "sync"
    THEN LET r == GetRemoteRepository(remote, doUpdate, isShallow, fs, drv)
         IN  /\ cur' = Target("sync", remote, r.stat, fs[FullPathOf(remote.url)])
             /\ evs' = r.evs
             /\ calls' = r.calls
             /\ fs' = r.fs
             /\ pc' = IF r.end = "return" THEN next ELSE r.end
    ELSE /\ cur' = Target(stage, remote, "none", "none")
         /\ evs' = <<>>
         /\ calls' = <<>>
         /\ fs' = fs
         /\ pc' = next

\* The remote NewRemoteRepository returned; none when it is not consulted.
RemotesWhen(made, schemes) ==
    IF made
    THEN {r \in Remotes : r.url.scheme \in schemes}
    ELSE {[url |-> NoTarget.url, valid |-> FALSE, vcs |-> "nil"]}

\* An answer of the environment, drawn only when the handler asks for it.
Answer(asked) == IF asked THEN BOOLEAN ELSE {TRUE}

DriverAnswer(stage) == IF stage = "sync" THEN DriverResults ELSE {"ok"}

DoGet ==
    /\ pc = "start"
    /\ cmd = "get"
    /\ \E argEmpty \in BOOLEAN : \E urlOk \in Answer(~argEmpty) :
       \E convOk \in Answer(~argEmpty /\ urlOk /\ isSSH) :
       \E remoteOk \in Answer(~argEmpty /\ urlOk /\ convOk) :
       \E remote \in RemotesWhen(~argEmpty /\ urlOk /\ convOk /\ remoteOk,
                                 IF isSSH THEN {"ssh"} ELSE Schemes) :
          LET stage == GetStage(argEmpty, urlOk, isSSH, convOk, remoteOk, remote)
          IN  \E drv \in DriverAnswer(stage) :
                 Synced(stage, remote, drv, IF stage = "sync" THEN "done" ELSE "exit1")
    /\ UNCHANGED <<cmd, doUpdate, isShallow, isSSH, itemsLeft, page, lastPage>>
    /\ UNCHANGED listVars

\* doImportStarred before the page loop: the user argument and the token
StarredStart ==
    /\ pc = "start"
    /\ cmd = "starred"
    /\ \E userEmpty \in BOOLEAN : \E configOk \in Answer(~userEmpty) :
          pc' = CASE userEmpty -> "exit1"
                  [] ~userEmpty /\ ~configOk -> "panic"
                  [] OTHER -> "fetch"
    /\ page' = 1
    /\ UNCHANGED <<cmd, doUpdate, isShallow, isSSH, fs, cur, evs, calls, itemsLeft, lastPage>>
    /\ UNCHANGED listVars

\* client.Activity.ListStarred(user, options) for the current page
StarredFetch ==
    /\ pc = "fetch"
    /\ \E ok \in BOOLEAN : \E n \in IF ok THEN 0..MaxItems ELSE {0} :
       \E last \in IF ok THEN 0..MaxPage ELSE {0} :
          IF ok
          THEN pc' = "items" /\ itemsLeft' = n /\ lastPage' = last
          ELSE pc' = "exit1" /\ UNCHANGED <<itemsLeft, lastPage>>
    /\ cur' = NoTarget
    /\ evs' = <<>>
    /\ calls' = <<>>
    /\ UNCHANGED <<cmd, doUpdate, isShallow, isSSH, fs, page>>
    /\ UNCHANGED listVars

StarredItem ==
    /\ pc = "items"
    /\ cmd = "starred"
    /\ itemsLeft > 0
    /\ \E urlOk \in BOOLEAN : \E convOk \in Answer(urlOk /\ isSSH) :
       \E remoteOk \in Answer(urlOk /\ convOk) :
       \E remote \in RemotesWhen(urlOk /\ convOk /\ remoteOk,
                                 IF isSSH THEN {"ssh"} ELSE {"https"}) :
          LET stage == StarredStage(urlOk, isSSH, convOk, remoteOk, remote)
          IN  \E drv \in DriverAnswer(stage) : Synced(stage, remote, drv, "items")
    /\ itemsLeft' = itemsLeft - 1
    /\ UNCHANGED <<cmd, doUpdate, isShallow, isSSH, page, lastPage>>
    /\ UNCHANGED listVars

\* the end of a page: `if page >= res.LastPage { break }`
StarredPageEnd ==
    /\ pc = "items"
    /\ cmd = "starred"
    /\ itemsLeft = 0
    /\ IF page >= lastPage
       THEN pc' = "done" /\ page' = page
       ELSE pc' = "fetch" /\ page' = page + 1
    /\ UNCHANGED <<cmd, doUpdate, isShallow, isSSH, fs, cur, evs, calls, itemsLeft, lastPage>>
    /\ UNCHANGED listVars

\* doImportPocket before the loop: consumer key, access token, retrieval
PocketStart ==
    /\ pc = "start"
    /\ cmd = "pocket"
    /\ \E keySet \in BOOLEAN : \E configOk \in Answer(keySet) :
       \E authOk \in Answer(keySet /\ configOk) :
       \E retrieveOk \in Answer(keySet /\ configOk /\ authOk) :
       \E n \in IF keySet /\ configOk /\ authOk /\ retrieveOk THEN 0..MaxItems ELSE {0} :
          /\ pc' = CASE ~keySet -> "done"
                     [] keySet /\ ~configOk -> "panic"
                     [] keySet /\ configOk /\ ~(authOk /\ retrieveOk) -> "exit1"
                     [] OTHER -> "items"
          /\ itemsLeft' = IF keySet /\ configOk /\ authOk /\ retrieveOk THEN n ELSE 0
    /\ cur' = NoTarget
    /\ evs' = <<>>
    /\ calls' = <<>>
    /\ UNCHANGED <<cmd, doUpdate, isShallow, isSSH, fs, page, lastPage>>
    /\ UNCHANGED listVars

PocketItem ==
    /\ pc = "items"
    /\ cmd = "pocket"
    /\ itemsLeft > 0
    /\ \E urlOk \in BOOLEAN : \E remoteOk \in Answer(urlOk) :
       \E remote \in RemotesWhen(urlOk /\ remoteOk, {"https"}) :
          LET stage == PocketStage(urlOk, remoteOk, remote)
          IN  \E drv \in DriverAnswer(stage) : Synced(stage, remote, drv, "items")
    /\ itemsLeft' = itemsLeft - 1
    /\ UNCHANGED <<cmd, doUpdate, isShallow, isSSH, page, lastPage>>
    /\ UNCHANGED listVars

PocketEnd ==
    /\ pc = "items"
    /\ cmd = "pocket"
    /\ itemsLeft = 0
    /\ pc' = "done"
    /\ UNCHANGED syncVars
    /\ UNCHANGED listVars

\* The command line of a run: the flags each sub-command declares.
CommandLine(c, u, s, p) ==
    /\ c \in {"get", "starred", "pocket"}
    /\ u \in BOOLEAN /\ s \in BOOLEAN /\ p \in BOOLEAN
    /\ c = "pocket" => (~s /\ ~p)

\* A later run of the program on the filesystem the earlier one left.
NewRun ==
    /\ pc \in Terminal
    /\ \E c \in {"get", "starred", "pocket"}, u, s, p \in BOOLEAN :
          /\ CommandLine(c, u, s, p)
          /\ cmd' = c /\ doUpdate' = u /\ isShallow' = s /\ isSSH' = p
    /\ pc' = "start"
    /\ cur' = NoTarget
    /\ evs' = <<>>
    /\ calls' = <<>>
    /\ itemsLeft' = 0
    /\ page' = 1
    /\ lastPage' = 0
    /\ UNCHANGED fs
    /\ UNCHANGED listVars

ListIdle ==
    /\ repos = <<>>
    /\ args = [cmd |-> "none", query |-> <<>>, exact |-> FALSE, full |-> FALSE,
               unique |-> FALSE, goos |-> "other"]
    /\ stdout = <<>>
    /\ errlog = <<>>
    /\ lookDir = <<>>

SyncInit ==
    /\ \E c \in {"get", "starred", "pocket"}, u, s, p \in BOOLEAN :
          /\ CommandLine(c, u, s, p)
          /\ cmd = c /\ doUpdate = u /\ isShallow = s /\ isSSH = p
    /\ fs \in [Paths -> {"absent", "repo", "unreadable"}]
    /\ pc = "start"
    /\ cur = NoTarget
    /\ evs = <<>>
    /\ calls = <<>>
    /\ itemsLeft = 0
    /\ page = 1
    /\ lastPage = 0
    /\ ListIdle

SyncNext ==
    \/ DoGet
    \/ StarredStart
    \/ StarredFetch
    \/ StarredItem
    \/ StarredPageEnd
    \/ PocketStart
    \/ PocketItem
    \/ PocketEnd
    \/ NewRun

SpecSync == SyncInit /\ [][SyncNext]_vars

----------------------------------------------------------------------------
(* Local repositories: strings are sequences of characters *)

Slash == <<"/">>

\* the configured roots, the primary root first
Roots == << <<"/", "p">>, <<"/", "q">>, <<"/", "s">> >>

\* directory names, in lexical order
NameSeq == << <<"a">>, <<"b">> >>

Names == {NameSeq[i] : i \in DOMAIN NameSeq}

PathPartsSet == UNION {[1..n -> Names] : n \in 1..MaxParts}

RECURSIVE Join(_)
\* strings.Join(parts, "/")
Join(parts) ==
    IF Len(parts) = 0 THEN <<>>
    ELSE IF Len(parts) = 1 THEN parts[1]
    ELSE parts[1] \o Slash \o Join(Tail(parts))

\* strings.Contains(s, sub)
Contains(s, sub) ==
    \E k \in 0..(Len(s) - Len(sub)) : SubSeq(s, k + 1, k + Len(sub)) = sub

HasSuffix(s, suffix) ==
    /\ Len(suffix) <= Len(s)
    /\ SubSeq(s, Len(s) - Len(suffix) + 1, Len(s)) = suffix

\* A LocalRepository record: fullPath = root + relPath, pathParts the
\* decomposition of relPath by the separator.
LocalRepository(r, parts) ==
    [root |-> Roots[r], FullPath |-> Roots[r] \o Slash \o Join(parts),
     RelPath |-> Join(parts), PathParts |-> parts]

LocalRepositories == {LocalRepository(r, parts) : r \in DOMAIN Roots, parts \in PathPartsSet}

\* repo.Subpaths(): the suffixes of PathParts, joined, shortest first
Subpaths(repo) ==
    [i \in 1..Len(repo.PathParts) |->
        Join(SubSeq(repo.PathParts, Len(repo.PathParts) - i + 1, Len(repo.PathParts)))]

\* repo.Matches(query): relPath equals the query or ends with "/" + query
Matches(repo, query) ==
    \/ repo.RelPath = query
    \/ HasSuffix(repo.RelPath, Slash \o query)

\* repo.NonHostPath(): relPath without its leading (host) part
NonHostPath(repo) == Join(Tail(repo.PathParts))

\* repo.IsUnderPrimaryRoot()
IsUnderPrimaryRoot(repo) == repo.root = Roots[1]

RootIndex(repo) == CHOOSE r \in DOMAIN Roots : Roots[r] = repo.root

NameRank(n) == CHOOSE i \in DOMAIN NameSeq : NameSeq[i] = n

IsPrefix(p, q) == Len(p) <= Len(q) /\ SubSeq(q, 1, Len(p)) = p

RECURSIVE PartsBefore(_, _)
\* lexical order of two relPaths, part by part (neither a prefix of the other)
PartsBefore(p, q) ==
    IF p[1] # q[1] THEN NameRank(p[1]) < NameRank(q[1])
    ELSE PartsBefore(Tail(p), Tail(q))

\* walkLocalRepositories visits the roots in order and each root in lexical
\* order, and does not descend into a repository it found.
WalkedBefore(a, b) ==
    \/ RootIndex(a) < RootIndex(b)
    \/ /\ a.root = b.root
       /\ ~IsPrefix(a.PathParts, b.PathParts)
       /\ ~IsPrefix(b.PathParts, a.PathParts)
       /\ PartsBefore(a.PathParts, b.PathParts)

\* The walk finds one more repository.
Discover(max) ==
    /\ pc = "walk"
    /\ Len(repos) < max
    /\ \E repo \in LocalRepositories :
          /\ \A i \in DOMAIN repos : WalkedBefore(repos[i], repo)
          /\ repos' = Append(repos, repo)
    /\ UNCHANGED <<pc, args, stdout, errlog, lookDir>>
    /\ UNCHANGED syncVars

----------------------------------------------------------------------------
(* list *)

FilterFn_RelPath(repo, query, exact) ==
    IF query = <<>> THEN TRUE
    ELSE IF exact THEN Matches(repo, query)
    ELSE Contains(repo.RelPath, query)

\* filterFn of doList
FilterFn(repo, query, exact) ==
    IF query = <<>> THEN TRUE
    ELSE IF exact THEN Matches(repo, query)
    ELSE Contains(NonHostPath(repo), query)

\* the repos slice doList collects from the walk
Filtered(all, query, exact) ==
    SelectSeq(all, LAMBDA repo : FilterFn(repo, query, exact))

\* reposCount[relPath] after the first loop
ReposCount(sel, relPath) == Cardinality({i \in DOMAIN sel : sel[i].RelPath = relPath})

\* `reposCount[repo.RelPath] == 0` when the first loop is at sel[i]
CountsSubpaths(sel, i) == \A j \in 1..(i - 1) : sel[j].RelPath # sel[i].RelPath

\* subpathCount[p] after the first loop
SubpathCount(sel, p) ==
    Cardinality({ik \in UNION {{<<i, k>> : k \in DOMAIN Subpaths(sel[i])} : i \in DOMAIN sel} :
                    /\ CountsSubpaths(sel, ik[1])
                    /\ Subpaths(sel[ik[1]])[ik[2]] = p})

Skipped_Never(sel, i) == FALSE

\* the `continue` of the second loop
Skipped(sel, i) ==
    ReposCount(sel, sel[i].RelPath) > 1 /\ ~IsUnderPrimaryRoot(sel[i])

\* the lines the second loop prints for sel[i]: the first subpath counted once
UniqueLines(sel, i) ==
    LET sp == Subpaths(sel[i])
        hits == {k \in DOMAIN sp : SubpathCount(sel, sp[k]) = 1}
    IN  IF Skipped(sel, i) \/ hits = {} THEN <<>>
        ELSE LET k == CHOOSE k \in hits : \A h \in hits : k <= h
             IN  <<[repo |-> sel[i], text |-> sp[k]]>>

\* the lines of the plain listing for sel[i]
PlainLines(sel, i, printFullPaths) ==
    <<[repo |-> sel[i], text |-> IF printFullPaths THEN sel[i].FullPath ELSE sel[i].RelPath]>>

RECURSIVE Printed(_, _, _, _)
\* everything doList prints for sel[i..]
Printed(sel, i, printFullPaths, printUniquePaths) ==
    IF i > Len(sel) THEN <<>>
    ELSE (IF printUniquePaths THEN UniqueLines(sel, i) ELSE PlainLines(sel, i, printFullPaths))
         \o Printed(sel, i + 1, printFullPaths, printUniquePaths)

DoList(query, exact, printFullPaths, printUniquePaths) ==
    /\ pc = "walk"
    /\ args' = [cmd |-> "list", query |-> query, exact |-> exact, full |-> printFullPaths,
                unique |-> printUniquePaths, goos |-> "other"]
    /\ stdout' = Printed(Filtered(repos, query, exact), 1, printFullPaths, printUniquePaths)
    /\ pc' = "done"
    /\ UNCHANGED <<repos, errlog, lookDir>>
    /\ UNCHANGED syncVars

SyncIdle ==
    /\ cmd = "none"
    /\ doUpdate = FALSE
    /\ isShallow = FALSE
    /\ isSSH = FALSE
    /\ fs = [p \in Paths |-> "absent"]
    /\ cur = NoTarget
    /\ evs = <<>>
    /\ calls = <<>>
    /\ itemsLeft = 0
    /\ page = 1
    /\ lastPage = 0

WalkInit ==
    /\ pc = "walk"
    /\ ListIdle
    /\ SyncIdle

\* list --unique without a query, after a walk of up to MaxRepos repositories
UniqueNext ==
    \/ Discover(MaxRepos)
    \/ DoList(<<>>, FALSE, FALSE, TRUE)

SpecUnique == WalkInit /\ [][UniqueNext]_vars

Queries ==
    {<<>>, <<"a">>, <<"b">>, <<"a", "/">>, <<"/", "b">>, <<"a", "/", "b">>, <<"b", "/", "a">>}

\* list with any query and flags, after a walk of up to MaxQueried repositories
ListNext ==
    \/ Discover(MaxQueried)
    \/ \E query \in Queries, exact, printFullPaths, printUniquePaths \in BOOLEAN :
          DoList(query, exact, printFullPaths, printUniquePaths)

SpecList == WalkInit /\ [][ListNext]_vars

----------------------------------------------------------------------------
(* which, look *)

\* reposFound: the walked repositories that match the name
Found(all, name) == SelectSeq(all, LAMBDA repo : Matches(repo, name))

\* utils.Log("error", "- " + strings.Join(repo.PathParts, "/")) for each
Candidates(found) ==
    [i \in DOMAIN found |->
        [kind |-> "candidate", text |-> <<"-", " ">> \o Join(found[i].PathParts)]]

NotFound == <<[kind |-> "No repository found", text |-> <<>>]>>

Ambiguous(found) ==
    <<[kind |-> "More than one repositories are found", text |-> <<>>]>> \o Candidates(found)

\* `switch len(reposFound)` of doWhich
WhichSwitch(n) ==
    CASE n = 0 -> "none"
      [] n = 1 -> "one"
      [] OTHER -> "many"

LookSwitch_FirstMatch(n) ==
    CASE n = 0 -> "none"
      [] OTHER -> "one"

\* `switch len(reposFound)` of doLook
LookSwitch(n) ==
    CASE n = 0 -> "none"
      [] n = 1 -> "one"
      [] OTHER -> "many"

DoWhich(name) ==
    /\ pc = "walk"
    /\ args' = [cmd |-> "which", query |-> name, exact |-> FALSE, full |-> FALSE,
                unique |-> FALSE, goos |-> "other"]
    /\ IF name = <<>>
       THEN pc' = "exit1" /\ stdout' = <<>> /\ errlog' = <<>>
       ELSE LET found == Found(repos, name)
                case == WhichSwitch(Len(found))
            IN  /\ pc' = "done"
                /\ stdout' = IF case = "one"
                             THEN <<[repo |-> found[1], text |-> found[1].FullPath]>>
                             ELSE <<>>
                /\ errlog' = CASE case = "none" -> NotFound
                               [] case = "one" -> <<>>
                               [] OTHER -> Ambiguous(found)
    /\ UNCHANGED <<repos, lookDir>>
    /\ UNCHANGED syncVars

\* goos: runtime.GOOS; started: cmd.Start() / os.Chdir / syscall.Exec went well
DoLook(name, goos, started) ==
    /\ pc = "walk"
    /\ args' = [cmd |-> "look", query |-> name, exact |-> FALSE, full |-> FALSE,
                unique |-> FALSE, goos |-> goos]
    /\ stdout' = <<>>
    /\ IF name = <<>>
       THEN pc' = "exit1" /\ errlog' = <<>> /\ lookDir' = <<>>
       ELSE LET found == Found(repos, name)
                case == LookSwitch(Len(found))
            IN  /\ lookDir' = IF case = "one" THEN found[1].FullPath ELSE <<>>
                /\ errlog' = CASE case = "none" -> NotFound
                               [] case = "one" -> <<>>
                               [] OTHER -> Ambiguous(found)
                /\ pc' = CASE case = "one" /\ goos = "windows" -> "done"
                           [] case = "one" /\ goos # "windows" /\ started -> "shell"
                           [] case = "one" /\ goos # "windows" /\ ~started -> "panic"
                           [] OTHER -> "done"
    /\ UNCHANGED repos
    /\ UNCHANGED syncVars

NameArgs == {<<>>, <<"a">>, <<"b">>, <<"a", "/", "b">>, <<"b", "/", "b">>, <<"/", "b">>}

WhichNext ==
    \/ Discover(MaxQueried)
    \/ \E name \in NameArgs : DoWhich(name)
    \/ \E name \in NameArgs, goos \in {"windows", "other"}, started \in BOOLEAN :
          DoLook(name, goos, started)

SpecWhich == WalkInit /\ [][WhichNext]_vars

----------------------------------------------------------------------------
(* Properties of the sync path *)

Present == {"repo", "partial"}

DriverOps == {calls[i].op : i \in DOMAIN calls}

Reached == cur.stage = "sync"

\* C1: a sync whose target path already exists (a complete clone or a partial
\* one left by an interrupted run) and whose update option is false reports
\* "exists" (AlreadyExists), returns normally and calls neither the driver's
\* clone nor its update.
C1_ExistsWithoutUpdateIsNoOp ==
    (Reached /\ cur.was \in Present /\ ~doUpdate) =>
        /\ evs = <<"stat", "log.exists">>
        /\ calls = <<>>
        /\ pc \notin {"exit1", "panic", "killed"}
        /\ fs[FullPathOf(cur.url)] = cur.was

C1_Witness ==
    /\ Reached /\ cur.was = "partial" /\ ~doUpdate
    /\ evs = <<"stat", "log.exists">>

\* C2: for a sync of a valid identity (IsValid holds and a VCS backend is
\* known), an absent target path means exactly one driver call,
\* clone(remoteURL, fullPath, shallow), and no update; a present target path
\* with update requested means exactly one driver call, update(fullPath), and
\* no clone; clone and update are never both called for one target.
C2_DriverCallDecided ==
    (Reached /\ cur.valid /\ cur.vcs # "nil") =>
        /\ cur.was = "absent" =>
              calls = <<[op |-> "Clone", vcs |-> cur.vcs, url |-> cur.url,
                         path |-> FullPathOf(cur.url), shallow |-> isShallow]>>
        /\ (cur.was \in Present /\ doUpdate) =>
              /\ Len(calls) = 1
              /\ calls[1].op = "Update"
              /\ calls[1].path = FullPathOf(cur.url)
        /\ ~({"Clone", "Update"} \subseteq DriverOps)
        /\ Len(calls) <= 1

C2_Witness ==
    /\ Reached /\ cur.valid /\ cur.vcs = "hg"
    /\ cur.was = "partial" /\ doUpdate
    /\ DriverOps = {"Update"}

\* C3: in get, import starred and import pocket, getRemoteRepository (the
\* existence check and the driver calls) is reached only for a remote whose
\* IsValid is true; for a remote whose IsValid is false nothing of it runs.
C3_OnlyValidRemotesReachSync ==
    /\ Reached => cur.valid
    /\ (cur.stage = "invalid" \/ ~cur.valid) => (evs = <<>> /\ calls = <<>>)

C3_Witness ==
    /\ cmd = "pocket" /\ cur.stage = "invalid" /\ ~cur.valid
    /\ evs = <<>> /\ pc = "items"

C10_FailingTargetNeverAbortsBatch ==
    ~ /\ cmd \in {"starred", "pocket"}
      /\ cur.stage # "none"
      /\ pc \in {"exit1", "panic"}
      /\ itemsLeft > 0

----------------------------------------------------------------------------
(* Properties of which and look *)

Matching == {i \in DOMAIN repos : Matches(repos[i], args.query)}

Resolved == pc # "walk" /\ args.cmd \in {"which", "look"} /\ args.query # <<>>

Texts(log) == [i \in DOMAIN log |-> log[i].text]

\* C5: which / look with a non-empty name: with no match an error is
\* reported and no path is output or selected; with exactly one match no
\* error is reported and the path output (which) or handed to the shell
\* (look) is that repository's full path; with more than one match an error
\* is reported that lists "- " + the joined path parts of every matching
\* repository, in order, and no path is output or selected.
C5_SingleTargetResolution ==
    Resolved =>
        /\ Matching = {} =>
              /\ errlog = <<[kind |-> "No repository found", text |-> <<>>]>>
              /\ stdout = <<>> /\ lookDir = <<>>
        /\ \A i \in Matching : Matching = {i} =>
              /\ errlog = <<>>
              /\ args.cmd = "which" => (Texts(stdout) = <<repos[i].FullPath>> /\ lookDir = <<>>)
              /\ args.cmd = "look" => (lookDir = repos[i].FullPath /\ stdout = <<>>)
        /\ Cardinality(Matching) > 1 =>
              /\ stdout = <<>> /\ lookDir = <<>>
              /\ Len(errlog) = Cardinality(Matching) + 1
              /\ errlog[1].kind = "More than one repositories are found"
              /\ \A i \in Matching :
                    \E m \in 2..Len(errlog) :
                       /\ errlog[m].text = <<"-", " ">> \o Join(repos[i].PathParts)
                       /\ m = 1 + Cardinality({j \in Matching : j <= i})

C5_Witness ==
    /\ Resolved /\ args.cmd = "look"
    /\ Cardinality(Matching) = 2
    /\ Len(errlog) = 3 /\ lookDir = <<>>

----------------------------------------------------------------------------
(* Properties of list *)

UniqueDone == pc = "done" /\ args.cmd = "list" /\ args.unique /\ args.query = <<>>

LinesFor(repo) == {m \in DOMAIN stdout : stdout[m].repo = repo}

CopiesOf(repo) == {j \in DOMAIN repos : repos[j].RelPath = repo.RelPath}

\* eligible to be printed by list --unique: the only copy of its relPath, or
\* the copy under the primary root
Eligible(repo) == Cardinality(CopiesOf(repo)) = 1 \/ repo.root = Roots[1]

SubpathSet(repo) == {Subpaths(repo)[k] : k \in DOMAIN Subpaths(repo)}

\* C6: list --unique over repositories with pairwise-distinct relPath
\* values prints exactly one Subpath for every repository, and no two
\* printed Subpaths are equal.
C6_EveryRepositoryGetsUniqueSubpath ==
    (UniqueDone /\ \A i, j \in DOMAIN repos : i # j => repos[i].RelPath # repos[j].RelPath) =>
        /\ \A i \in DOMAIN repos :
              /\ Cardinality(LinesFor(repos[i])) = 1
              /\ \A m \in LinesFor(repos[i]) : stdout[m].text \in SubpathSet(repos[i])
        /\ \A m, n \in DOMAIN stdout : m # n => stdout[m].text # stdout[n].text

\* C7: list --unique prints, for a relPath found under more than one root,
\* only the copy under the primary root (nothing when there is none), and
\* prints at most one line for each relPath.
C7_OnlyPrimaryCopyPrinted ==
    UniqueDone =>
        /\ \A m \in DOMAIN stdout :
              /\ \E i \in DOMAIN repos : repos[i] = stdout[m].repo
              /\ Cardinality(CopiesOf(stdout[m].repo)) > 1 => stdout[m].repo.root = Roots[1]
        /\ \A m, n \in DOMAIN stdout :
              m # n => stdout[m].repo.RelPath # stdout[n].repo.RelPath

C7_Witness ==
    /\ UniqueDone
    /\ \E i, j \in DOMAIN repos :
          /\ i # j /\ repos[i].RelPath = repos[j].RelPath
          /\ repos[i].root = Roots[1]
          /\ LinesFor(repos[i]) # {} /\ LinesFor(repos[j]) = {}

\* the subpaths of repo that are a subpath of no other eligible repository
FreeSubpaths(repo) ==
    {p \in SubpathSet(repo) :
        \A j \in DOMAIN repos :
           (repos[j] # repo /\ Eligible(repos[j])) => p \notin SubpathSet(repos[j])}

\* C8: list --unique counts the subpaths of the eligible repositories only
\* and prints each eligible repository as the shortest of its subpaths that
\* is a subpath of no other eligible repository; repositories that are not
\* eligible count for nothing and print nothing.
C8_ShortestSubpathAmongEligible ==
    UniqueDone =>
        \A i \in DOMAIN repos :
           IF Eligible(repos[i]) /\ FreeSubpaths(repos[i]) # {}
           THEN \E p \in FreeSubpaths(repos[i]) :
                   /\ \A q \in FreeSubpaths(repos[i]) : Len(p) <= Len(q)
                   /\ \A m \in LinesFor(repos[i]) : stdout[m].text = p
                   /\ Cardinality(LinesFor(repos[i])) = 1
           ELSE LinesFor(repos[i]) = {}

PlainDone == pc = "done" /\ args.cmd = "list" /\ ~args.unique

IsPrinted(repo) == LinesFor(repo) # {}

\* the discovered repositories are printed at most once, in discovery order,
\* as their relPath or (with --full-path) their full path
InDiscoveryOrder ==
    /\ \A m \in DOMAIN stdout :
          /\ \E i \in DOMAIN repos : repos[i] = stdout[m].repo
          /\ stdout[m].text = IF args.full THEN stdout[m].repo.FullPath
                              ELSE stdout[m].repo.RelPath
    /\ \A m, n \in DOMAIN stdout :
          m < n => \E i, j \in DOMAIN repos :
                      i < j /\ repos[i] = stdout[m].repo /\ repos[j] = stdout[n].repo

Substring(s, sub) == \E k \in 1..(Len(s) + 1) : \E l \in k - 1..Len(s) : SubSeq(s, k, l) = sub

\* C9 as claimed: list with a non-empty query, not exact, prints exactly the
\* discovered repositories whose relPath contains the query as a contiguous
\* substring, in discovery order; with an empty query, every repository.
C9_SelectsByRelPathSubstring ==
    (PlainDone /\ ~args.exact) =>
        /\ \A i \in DOMAIN repos :
              IsPrinted(repos[i]) <=>
                 (args.query = <<>> \/ Substring(repos[i].RelPath, args.query))
        /\ InDiscoveryOrder

\* C9 as amended: list with a non-empty query, not exact, prints exactly the
\* discovered repositories whose non-host path (relPath without its first
\* part) contains the query as a contiguous substring, in discovery order;
\* with an empty query, every repository.
C9_SelectsByNonHostPathSubstring ==
    (PlainDone /\ ~args.exact) =>
        /\ \A i \in DOMAIN repos :
              IsPrinted(repos[i]) <=>
                 (args.query = <<>> \/
                  Substring(Join(Tail(repos[i].PathParts)), args.query))
        /\ InDiscoveryOrder

C9_Witness ==
    /\ PlainDone /\ ~args.exact /\ args.query # <<>>
    /\ Len(repos) = 2 /\ Len(stdout) = 1
    /\ stdout[1].repo = repos[2]
    /\ Substring(repos[1].RelPath, args.query)

====
